---- MODULE Spec2Model ----
(***************************************************************************)
(* The two log shippers of the repository as one state machine:            *)
(*   src/httplogs/httplogtoinsights.py   (access-log shipper, "http_")     *)
(*   src/log/windchillLogstoInsights.py  (application-log shipper, "wc_")  *)
(*                                                                         *)
(* A log file is a sequence of symbols.  Each symbol stands for a chunk of *)
(* text of the file and offsets count symbols:                             *)
(*   "\n"  a line terminator          " "   a run of blanks/tabs           *)
(*   "g"   text that does not match the access-log pattern                 *)
(*   "q2"  a request record `ip - user [ts] "GET /x HTTP/1.1" 200 512 100` *)
(*   "q4"  a request record `... "GET /y HTTP/1.1" 404 0 300`              *)
(*   "q399" / "q400"  request records with status 399 / 400                *)
(*   "e" / "w" / "i"  application-log text containing "ERROR" / containing *)
(*         "WARN" / containing neither                                     *)
(***************************************************************************)
EXTENDS Integers, Sequences, FiniteSets, TLC

\* ---------------------------------------------------------------- bounds
MaxLen == 3          \* longest log file, in symbols
MaxStops == 2        \* stops (and restarts) of a shipper process
MaxRestartLen == 2   \* the same two for the runs that start from any state file
MaxRestarts == 1
MaxRotateLen == 2    \* longest log file of the rotation runs
MaxRotations == 1    \* replacements of a log file by an empty one
MaxSamples == 5      \* response times of one cycle in the percentile runs
MaxBatch == 3        \* lines of access.log in the batch runs
MaxRemovals == 1     \* times a log file is moved away and put back

\* ------------------------------------------------------- program constants
ACCESS_LOG == "access.log"
NL == "\n"
Whitespace == {" ", NL}
AccessSymbols == {NL, "g", "q2", "q4", "q399", "q400"}
LogSymbols == {NL, " ", "e", "w", "i"}
MS_LOG == "MethodServer-1-log4j.log"
SM_LOG == "ServerManager-1-log4j.log"

VARIABLES
  present,          \* the paths that exist in the file system
  data,             \* path -> content of the log file
  stateFile,        \* log_state.json: [kind, obj]
  http_pc,          \* position of the access-log shipper in its script
  last_access_pos,  \* module global of httplogtoinsights.py
  lines,            \* send_access_metrics: lines still to be processed
  request_count, error_count, response_times,
  http_mmap,        \* module-level measurement map: measure -> last value put
  http_samples,     \* samples recorded per measure since the cycle began
  report,           \* the "[Metrics]" summary logged in this cycle, if any
  http_run,         \* observations of the current run of the access shipper
  wc_pc,            \* position of the application-log shipper in its script
  last_positions,   \* module global of windchillLogstoInsights.py
  wc_source,        \* index of the LOG_PATTERNS entry being processed
  log_files,        \* send_new_logs: files of the glob still to be read
  new_lines,        \* send_new_logs: lines of the file still to be processed
  wc_mmap, wc_samples, wc_run,
  sent,             \* every line event handed to the telemetry logger
  stops,            \* how often a shipper process has been stopped
  rotations,        \* how often a log file has been replaced or moved away
  dirty,            \* path -> written to since it was last read
  readFrom,         \* path -> offset its latest read started at
  reads,            \* path -> reads of it by the current run: 0, 1, then 2/3
  cuts,             \* path -> offsets at which a read ended inside a line
  down              \* path -> size when the shipper stopped / was restarted

envVars == <<present, data, rotations>>
httpVars == <<http_pc, last_access_pos, lines, request_count, error_count,
              response_times, http_mmap, http_samples, report, http_run>>
wcVars == <<wc_pc, last_positions, wc_source, log_files, new_lines, wc_mmap,
            wc_samples, wc_run>>
obsVars == <<sent, stops, dirty, readFrom, reads, cuts, down>>
vars == <<envVars, stateFile, httpVars, wcVars, obsVars>>

\* ---------------------------------------------------------------- helpers
Min(a, b) == IF a < b THEN a ELSE b
Max(a, b) == IF a > b THEN a ELSE b

RECURSIVE SumSeq(_)
SumSeq(s) == IF s = <<>> THEN 0 ELSE Head(s) + SumSeq(Tail(s))

\* index of the first terminator of s, 0 when it has none
RECURSIVE FirstNL(_, _)
FirstNL(s, i) ==
  IF i > Len(s) THEN 0 ELSE IF s[i] = NL THEN i ELSE FirstNL(s, i + 1)

\* file.readlines() from the current position: every line keeps its
\* terminator, an unterminated tail is returned as a last line.  `at` is the
\* offset the line starts at.
RECURSIVE SplitLines(_, _)
SplitLines(s, off) ==
  IF s = <<>> THEN <<>>
  ELSE LET k == FirstNL(s, 1) IN
       IF k = 0 THEN << [text |-> s, at |-> off] >>
       ELSE << [text |-> SubSeq(s, 1, k), at |-> off] >>
            \o SplitLines(SubSeq(s, k + 1, Len(s)), off + k)

\* f.seek(pos); f.readlines()
readlines(content, pos) ==
  IF pos >= Len(content) THEN <<>>
  ELSE SplitLines(SubSeq(content, pos + 1, Len(content)), pos)

\* a read that leaves the position where the seek put it
tell_unmoved(content, pos) == pos

\* f.tell() after f.seek(pos); f.readlines(): a seek past the end stays there
tell(content, pos) == IF pos > Len(content) THEN pos ELSE Len(content)

\* str.strip()
RECURSIVE lstrip(_)
lstrip(s) ==
  IF s # <<>> /\ Head(s) \in Whitespace THEN lstrip(Tail(s)) ELSE s
RECURSIVE rstrip(_)
rstrip(s) ==
  IF s # <<>> /\ s[Len(s)] \in Whitespace
  THEN rstrip(SubSeq(s, 1, Len(s) - 1)) ELSE s
\* a strip() that takes off the line terminator and nothing else
strip_line_end(s) ==
  IF s # <<>> /\ s[Len(s)] = NL THEN SubSeq(s, 1, Len(s) - 1) ELSE s
strip(s) == rstrip(lstrip(s))

\* log_pattern.match(line): the pattern is anchored at the start of the line
\* only, so a line matches when it begins with a request record.
RequestStatus == [q2 |-> 200, q4 |-> 404, q399 |-> 399, q400 |-> 400]
RequestTime == [q2 |-> 100, q4 |-> 300, q399 |-> 200, q400 |-> 500]
\* a parser that takes every non-empty line for a request
parse_log_line_any(line) ==
  [matched |-> line # <<>>, status |-> 0, response_time |-> 0]

parse_log_line(line) ==
  IF line # <<>> /\ line[1] \in DOMAIN RequestStatus
  THEN [matched |-> TRUE, status |-> RequestStatus[line[1]],
        response_time |-> RequestTime[line[1]]]
  ELSE [matched |-> FALSE, status |-> 0, response_time |-> 0]

\* ------------------------------------------------------------- state file
NoObj == [k \in {} |-> 0]
Missing == [kind |-> "missing", obj |-> NoObj]
Corrupt == [kind |-> "corrupt", obj |-> NoObj]        \* not valid JSON
Unreadable == [kind |-> "unreadable", obj |-> NoObj]  \* open() raises
NotDict == [kind |-> "notdict", obj |-> NoObj]        \* JSON, but no object
Json(o) == [kind |-> "json", obj |-> o]

\* state.get(key, default)
dict_get(o, key, default) == IF key \in DOMAIN o THEN o[key] ELSE default

\* ------------------------------------------------------ telemetry (ghost)
NoSamples == [m \in {} |-> 0]

\* record_metric(name, value): put the value into the module-level
\* measurement map, then mmap.record(), which records one sample for every
\* measure the map holds.  Returns the pair (map, samples).
record_metric(measures, mm, smp, name, value) ==
  IF name \in measures
  THEN LET mm2 == [m \in DOMAIN mm \cup {name} |->
                     IF m = name THEN value ELSE mm[m]]
       IN  [mmap |-> mm2,
            samples |-> [m \in DOMAIN smp \cup DOMAIN mm2 |->
                           (IF m \in DOMAIN smp THEN smp[m] ELSE 0)
                           + (IF m \in DOMAIN mm2 THEN 1 ELSE 0)]]
  ELSE [mmap |-> mm, samples |-> smp]

Event(path, line, level) ==
  [path |-> path, at |-> line.at, msg |-> strip(line.text), level |-> level]

\* what a read of a file leaves in the observation variables
NextReads(n) == IF n = 0 THEN 1 ELSE IF n = 2 THEN 3 ELSE 2
CutsAfter(c, content, pos) ==
  IF pos < Len(content) /\ content[Len(content)] # NL
  THEN c \cup {Len(content)} ELSE c
Window(from, to) == [at |-> 0, from |-> from, to |-> to]

\* observations of one run of a shipper process
FreshRun == [sig |-> "none", finalSaves |-> 0, failed |-> FALSE, dropped |-> 0]

\* ------------------------------------------- httplogtoinsights.py: metrics
http_measures == {"response_time", "avg_response_time", "error_http_count",
                  "request_count", "error_rate", "heartbeat"}

\* a comparison that leaves out the status 400 itself
is_error_above(status) == status > 400

\* log_data["status"] >= 400, line 211
is_error(status) == status >= 400

\* int(np.mean(response_times))
mean_int(s) == SumSeq(s) \div Len(s)

\* sorted(response_times)
RECURSIVE Insert(_, _)
Insert(x, s) ==
  IF s = <<>> THEN <<x>>
  ELSE IF x <= Head(s) THEN <<x>> \o s ELSE <<Head(s)>> \o Insert(x, Tail(s))
RECURSIVE Sorted(_)
Sorted(s) == IF s = <<>> THEN <<>> ELSE Insert(Head(s), Sorted(Tail(s)))

\* the nearest-rank percentile: the sample at rank ceil(q/100 * N)
nearest_rank(s, q) ==
  LET a == Sorted(s)
      n == Len(a)
      rank == (q * n + 99) \div 100
  IN  {a[Max(1, Min(n, rank))]}

\* int(np.percentile(response_times, q)).  numpy's default method is linear
\* interpolation between the two samples around the virtual index
\* q/100 * (N-1) of the sorted samples, computed in floating point; int()
\* drops the fraction.  Where the interpolated value is a whole number v the
\* float may come out just below it, so the call yields v or v - 1; it is
\* exact when the two samples are equal and for q = 50 (0.5 is a binary
\* fraction).  The operator gives the set of values the call can return.
percentile_int(s, q) ==
  LET a == Sorted(s)
      n == Len(a)
      lo == (q * (n - 1)) \div 100
      fr == (q * (n - 1)) % 100
      hi == Min(lo + 1, n - 1)
      x100 == 100 * a[lo + 1] + fr * (a[hi + 1] - a[lo + 1])
      v == x100 \div 100
  IN  IF x100 % 100 = 0 /\ q # 50 /\ a[lo + 1] # a[hi + 1] THEN {v - 1, v} ELSE {v}

\* --------------------------------------- httplogtoinsights.py: the script
HttpTry == {"poll", "lines", "heartbeat", "save", "save_w", "sleep"}
HttpUp == HttpTry \cup {"load", "final_save", "final_save_w"}

\* a load that does not take the offset from the file
http_loaded_pos_ignored(sf, cur) == cur

\* load_state(): lines 134-143
http_loaded_pos(sf, cur) ==
  IF sf.kind # "json" THEN cur ELSE dict_get(sf.obj, "last_access_pos", 0)

\* a load without the handler of line 142: a damaged file ends the process
http_load_state_unguarded ==
  /\ http_pc = "load"
  /\ IF stateFile.kind \in {"missing", "json"}
     THEN /\ last_access_pos' = http_loaded_pos(stateFile, last_access_pos)
          /\ http_pc' = "poll"
     ELSE /\ http_pc' = "exited"
          /\ UNCHANGED last_access_pos
  /\ UNCHANGED <<envVars, wcVars, stateFile, lines, request_count, error_count,
                 response_times, http_mmap, http_samples, report, http_run,
                 obsVars>>

http_load_state ==
  /\ http_pc = "load"
  /\ last_access_pos' = http_loaded_pos(stateFile, last_access_pos)
  /\ http_pc' = "poll"
  /\ UNCHANGED <<envVars, wcVars, stateFile, lines, request_count, error_count,
                 response_times, http_mmap, http_samples, report, http_run,
                 obsVars>>

\* a cycle that forgets the position of a file it does not find
http_missing_file_reset ==
  /\ http_pc' = "heartbeat"
  /\ last_access_pos' = 0
  /\ UNCHANGED <<lines, request_count, error_count, response_times,
                 http_run, dirty, readFrom, reads, cuts, down>>

\* send_access_metrics(), lines 189-191: the file does not exist
http_missing_file ==
  /\ http_pc' = "heartbeat"
  /\ UNCHANGED <<last_access_pos, lines, request_count, error_count,
                 response_times, http_run, dirty, readFrom, reads,
                 cuts, down>>

\* send_access_metrics(), lines 186-200: the existence test and the read
http_send_access_metrics(open_fails) ==
  /\ http_pc = "poll"
  /\ http_samples' = NoSamples
  /\ report' = <<>>
  /\ IF ACCESS_LOG \notin present
     THEN http_missing_file
     ELSE IF open_fails
     THEN /\ http_pc' = "exited"
          /\ http_run' = [http_run EXCEPT !.sig = "io_error"]
          /\ UNCHANGED <<last_access_pos, lines, request_count, error_count,
                         response_times, dirty, readFrom, reads, cuts,
                         down>>
     ELSE /\ request_count' = 0
          /\ error_count' = 0
          /\ response_times' = <<>>
          /\ lines' = readlines(data[ACCESS_LOG], last_access_pos)
          /\ last_access_pos' = tell(data[ACCESS_LOG], last_access_pos)
          /\ http_pc' = "lines"
          /\ http_run' = [http_run EXCEPT !.failed = FALSE, !.dropped = 0]
          /\ dirty' = [dirty EXCEPT ![ACCESS_LOG] = FALSE]
          /\ readFrom' = [readFrom EXCEPT ![ACCESS_LOG] = last_access_pos]
          /\ reads' = [reads EXCEPT ![ACCESS_LOG] = NextReads(@)]
          /\ cuts' = [cuts EXCEPT ![ACCESS_LOG] =
                        CutsAfter(@, data[ACCESS_LOG], last_access_pos)]
          /\ down' = IF reads[ACCESS_LOG] >= 1
                     THEN [down EXCEPT ![ACCESS_LOG] = Window(0, 0)]
                     ELSE down
  /\ UNCHANGED <<envVars, wcVars, stateFile, http_mmap, sent, stops>>

\* one iteration of `for line in lines`, lines 202-219.  fail names the
\* telemetry call of the iteration that raises: "none", "metric" or "event".
http_process_line(fail) ==
  /\ http_pc = "lines"
  /\ lines # <<>>
  /\ LET line == strip(Head(lines).text)
         log_data == parse_log_line(line)
         m1 == record_metric(http_measures, http_mmap, http_samples,
                             "response_time", log_data.response_time)
         m2 == IF is_error(log_data.status)
               THEN record_metric(http_measures, m1.mmap, m1.samples,
                                  "error_http_count", 1)
               ELSE m1
     IN  IF line = <<>> \/ ~log_data.matched
         THEN /\ fail = "none"
              /\ lines' = Tail(lines)
              /\ UNCHANGED <<http_pc, request_count, error_count,
                             response_times, http_mmap, http_samples,
                             http_run, sent, stops>>
         ELSE IF fail = "metric"
         THEN /\ stops < MaxStops
              /\ stops' = stops + 1
              /\ http_pc' = "exited"
              /\ http_run' = [http_run EXCEPT !.sig = "telemetry_error",
                                              !.failed = TRUE,
                                              !.dropped = Len(lines) - 1]
              /\ UNCHANGED <<lines, request_count, error_count,
                             response_times, http_mmap, http_samples, sent>>
         ELSE IF fail = "event"
         THEN /\ stops < MaxStops
              /\ stops' = stops + 1
              /\ http_pc' = "exited"
              /\ http_run' = [http_run EXCEPT !.sig = "telemetry_error",
                                              !.failed = TRUE,
                                              !.dropped = Len(lines) - 1]
              /\ http_mmap' = m2.mmap
              /\ http_samples' = m2.samples
              /\ UNCHANGED <<lines, request_count, error_count,
                             response_times, sent>>
         ELSE /\ request_count' = request_count + 1
              /\ response_times' = Append(response_times,
                                          log_data.response_time)
              /\ error_count' = IF is_error(log_data.status)
                                THEN error_count + 1 ELSE error_count
              /\ http_mmap' = m2.mmap
              /\ http_samples' = m2.samples
              /\ sent' = Append(sent, Event(ACCESS_LOG, Head(lines), "INFO"))
              /\ lines' = Tail(lines)
              /\ UNCHANGED <<http_pc, http_run, stops>>
  /\ UNCHANGED <<envVars, wcVars, stateFile, last_access_pos, report, dirty,
                 readFrom, reads, cuts, down>>

\* the end of send_access_metrics(), lines 221-234
http_summary ==
  /\ http_pc = "lines"
  /\ lines = <<>>
  /\ IF request_count > 0
     THEN LET m1 == record_metric(http_measures, http_mmap, http_samples,
                                  "request_count", request_count)
              error_rate == <<100 * error_count, request_count>>
              m2 == record_metric(http_measures, m1.mmap, m1.samples,
                                  "error_rate", error_rate)
              avg_response == mean_int(response_times)
              m3 == record_metric(http_measures, m2.mmap, m2.samples,
                                  "avg_response_time", avg_response)
          IN  /\ http_mmap' = m3.mmap
              /\ http_samples' = m3.samples
              /\ \E v50 \in percentile_int(response_times, 50) :
                 \E v90 \in percentile_int(response_times, 90) :
                 \E v99 \in percentile_int(response_times, 99) :
                    report' = << [Requests |-> request_count,
                                  Errors |-> error_count,
                                  ErrorRate |-> error_rate,
                                  Avg |-> avg_response,
                                  p50 |-> v50, p90 |-> v90, p99 |-> v99] >>
     ELSE UNCHANGED <<http_mmap, http_samples, report>>
  /\ http_pc' = "heartbeat"
  /\ UNCHANGED <<envVars, wcVars, stateFile, last_access_pos, lines, request_count,
                 error_count, response_times, http_run, obsVars>>

\* an iteration that goes on to save_state() without its heartbeat
http_heartbeat_skipped ==
  /\ http_pc = "heartbeat"
  /\ http_pc' = "save"
  /\ UNCHANGED <<envVars, wcVars, stateFile, last_access_pos, lines, request_count,
                 error_count, response_times, http_mmap, http_samples, report,
                 http_run, obsVars>>

\* record_metric("heartbeat", 1), line 245
http_heartbeat ==
  /\ http_pc = "heartbeat"
  /\ LET m == record_metric(http_measures, http_mmap, http_samples,
                            "heartbeat", 1)
     IN  /\ http_mmap' = m.mmap
         /\ http_samples' = m.samples
  /\ http_pc' = "save"
  /\ UNCHANGED <<envVars, wcVars, stateFile, last_access_pos, lines, request_count,
                 error_count, response_times, report, http_run, obsVars>>

\* a save_state() whose failure to open the state file ends the process
http_save_open_fatal(open_fails) ==
  /\ http_pc \in {"save", "final_save"}
  /\ IF open_fails
     THEN /\ http_pc' = "exited"
          /\ UNCHANGED stateFile
     ELSE /\ http_pc' = IF http_pc = "save" THEN "save_w" ELSE "final_save_w"
          /\ stateFile' = Corrupt
  /\ UNCHANGED <<envVars, wcVars, last_access_pos, lines, request_count, error_count,
                 response_times, http_mmap, http_samples, report, http_run,
                 obsVars>>

\* save_state(), lines 145-151.  open(STATE_FILE, "w") empties the file; the
\* dump reaches the file when the with block closes it.
http_save_open(open_fails) ==
  /\ http_pc \in {"save", "final_save"}
  /\ IF open_fails
     THEN /\ http_pc' = IF http_pc = "save" THEN "sleep" ELSE "exited"
          /\ UNCHANGED stateFile
     ELSE /\ http_pc' = IF http_pc = "save" THEN "save_w" ELSE "final_save_w"
          /\ stateFile' = Corrupt
  /\ UNCHANGED <<envVars, wcVars, last_access_pos, lines, request_count, error_count,
                 response_times, http_mmap, http_samples, report, http_run,
                 obsVars>>

http_save_write ==
  /\ http_pc \in {"save_w", "final_save_w"}
  /\ stateFile' = Json([last_access_pos |-> last_access_pos])
  /\ http_pc' = IF http_pc = "save_w" THEN "sleep" ELSE "exited"
  /\ http_run' = IF http_pc = "final_save_w"
                 THEN [http_run EXCEPT !.finalSaves = @ + 1] ELSE http_run
  /\ UNCHANGED <<envVars, wcVars, last_access_pos, lines, request_count, error_count,
                 response_times, http_mmap, http_samples, report, obsVars>>

\* time.sleep(POLL_INTERVAL) returns, line 247
http_wake ==
  /\ http_pc = "sleep"
  /\ http_pc' = "poll"
  /\ UNCHANGED <<envVars, wcVars, stateFile, last_access_pos, lines, request_count,
                 error_count, response_times, http_mmap, http_samples, report,
                 http_run, obsVars>>

Sizes == [p \in DOMAIN data |-> Len(data[p])]

\* SIGINT: KeyboardInterrupt is raised at the statement being executed.
\* Inside the try block (lines 242-247) the handler of line 248 runs;
\* before it (lines 240-241) nothing catches it.
http_interrupt(max_stops) ==
  /\ http_pc \in HttpTry \cup {"load"}
  /\ stops < max_stops
  /\ stops' = stops + 1
  /\ http_pc' = IF http_pc = "load" THEN "exited" ELSE "final_save"
  /\ http_run' = [http_run EXCEPT !.sig = "interrupt"]
  /\ down' = [down EXCEPT ![ACCESS_LOG].at = Sizes[ACCESS_LOG]]
  /\ UNCHANGED <<envVars, wcVars, stateFile, last_access_pos, lines, request_count,
                 error_count, response_times, http_mmap, http_samples, report,
                 sent, dirty, readFrom, reads, cuts>>

\* SIGTERM or a crash: no handler is installed, the process ends at once
http_kill(max_stops) ==
  /\ http_pc \in HttpUp
  /\ stops < max_stops
  /\ stops' = stops + 1
  /\ http_pc' = "exited"
  /\ http_run' = [http_run EXCEPT !.sig = "terminate"]
  /\ down' = [down EXCEPT ![ACCESS_LOG].at = Sizes[ACCESS_LOG]]
  /\ UNCHANGED <<envVars, wcVars, stateFile, last_access_pos, lines, request_count,
                 error_count, response_times, http_mmap, http_samples, report,
                 sent, dirty, readFrom, reads, cuts>>

\* the script is started again: module globals take their initial values
http_restart ==
  /\ http_pc = "exited"
  /\ http_pc' = "load"
  /\ last_access_pos' = 0
  /\ lines' = <<>>
  /\ request_count' = 0
  /\ error_count' = 0
  /\ response_times' = <<>>
  /\ http_mmap' = NoSamples
  /\ http_samples' = NoSamples
  /\ report' = <<>>
  /\ http_run' = FreshRun
  /\ down' = [down EXCEPT ![ACCESS_LOG] = Window(@.at, Sizes[ACCESS_LOG])]
  /\ reads' = [reads EXCEPT ![ACCESS_LOG] = 0]
  /\ UNCHANGED <<envVars, wcVars, stateFile, sent, stops, dirty, readFrom, cuts>>

\* ------------------------------- windchillLogstoInsights.py: the script
LOG_PATTERNS == <<"MethodServer", "BackgroundMethodServer", "ServerManager",
                  "UpgradeManager">>

\* the files of the model each pattern of LOG_PATTERNS matches
PatternFiles == [MethodServer |-> <<MS_LOG>>,
                 BackgroundMethodServer |-> <<>>,
                 ServerManager |-> <<SM_LOG>>,
                 UpgradeManager |-> <<>>]

\* glob.glob(os.path.join(LOG_FOLDER, pattern))
glob(source) == SelectSeq(PatternFiles[source], LAMBDA p : p \in present)

wc_measures == {"info_count", "warn_count", "error_count", "heartbeat"}

WcTry == {"poll", "files", "lines", "heartbeat", "save", "save_w", "sleep"}
WcUp == WcTry \cup {"load", "final_save", "final_save_w"}

\* the level a line is logged at and the counter it increments, lines 127-135
classify(line) ==
  IF \E k \in DOMAIN line : line[k] = "e"
  THEN [level |-> "ERROR", measure |-> "error_count"]
  ELSE IF \E k \in DOMAIN line : line[k] = "w"
  THEN [level |-> "WARNING", measure |-> "warn_count"]
  ELSE [level |-> "INFO", measure |-> "info_count"]

\* load_state(): lines 84-93
wc_loaded_positions(sf, cur) ==
  IF sf.kind # "json" THEN cur ELSE dict_get(sf.obj, "last_positions", NoObj)

wc_load_state ==
  /\ wc_pc = "load"
  /\ last_positions' = wc_loaded_positions(stateFile, last_positions)
  /\ wc_pc' = "poll"
  /\ UNCHANGED <<envVars, httpVars, stateFile, wc_source, log_files,
                 new_lines, wc_mmap, wc_samples, wc_run, obsVars>>

\* where the script goes on once a file of the glob is done with: the next
\* file, the next entry of LOG_PATTERNS (line 152), or the heartbeat
wc_after_file(rest, src) ==
  IF rest # <<>> THEN [pc |-> "files", source |-> src, files |-> rest]
  ELSE IF src < Len(LOG_PATTERNS)
  THEN [pc |-> "poll", source |-> src + 1, files |-> <<>>]
  ELSE [pc |-> "heartbeat", source |-> 1, files |-> <<>>]

\* send_new_logs(source, pattern), line 111: the glob
wc_send_new_logs ==
  /\ wc_pc = "poll"
  /\ LET found == glob(LOG_PATTERNS[wc_source])
         nxt == wc_after_file(found, wc_source)
     IN  /\ wc_pc' = nxt.pc
         /\ wc_source' = nxt.source
         /\ log_files' = nxt.files
  /\ wc_samples' = IF wc_source = 1 THEN NoSamples ELSE wc_samples
  /\ wc_run' = IF wc_source = 1
               THEN [wc_run EXCEPT !.failed = FALSE, !.dropped = 0]
               ELSE wc_run
  /\ UNCHANGED <<envVars, httpVars, stateFile, last_positions, new_lines,
                 wc_mmap, obsVars>>

\* a table that keeps the entry of the file being processed only
first_seen_only(positions, log_file) ==
  [f \in {log_file} |->
     IF f \in DOMAIN positions THEN positions[f] ELSE 0]

\* `if log_file not in last_positions: last_positions[log_file] = 0`,
\* lines 113-114
first_seen(positions, log_file) ==
  [f \in DOMAIN positions \cup {log_file} |->
     IF f \in DOMAIN positions THEN positions[f] ELSE 0]

\* one iteration of `for log_file in log_files` up to the read, lines 112-120
wc_read_file(open_fails) ==
  /\ wc_pc = "files"
  /\ LET log_file == Head(log_files)
         pos == IF log_file \in DOMAIN last_positions
                THEN last_positions[log_file] ELSE 0
         seen == first_seen(last_positions, log_file)
         got == readlines(data[log_file], pos)
         nxt == wc_after_file(Tail(log_files), wc_source)
     IN  IF open_fails \/ log_file \notin present
         THEN /\ last_positions' = seen
              /\ wc_pc' = nxt.pc
              /\ wc_source' = nxt.source
              /\ log_files' = nxt.files
              /\ UNCHANGED <<new_lines, dirty, readFrom, reads, cuts, down>>
         ELSE /\ last_positions' =
                   [seen EXCEPT ![log_file] = tell(data[log_file], pos)]
              /\ new_lines' = got
              /\ wc_pc' = IF got = <<>> THEN nxt.pc ELSE "lines"
              /\ wc_source' = IF got = <<>> THEN nxt.source ELSE wc_source
              /\ log_files' = IF got = <<>> THEN nxt.files ELSE log_files
              /\ dirty' = [dirty EXCEPT ![log_file] = FALSE]
              /\ readFrom' = [readFrom EXCEPT ![log_file] = pos]
              /\ reads' = [reads EXCEPT ![log_file] = NextReads(@)]
              /\ cuts' = [cuts EXCEPT ![log_file] =
                            CutsAfter(@, data[log_file], pos)]
              /\ down' = IF reads[log_file] >= 1
                         THEN [down EXCEPT ![log_file] = Window(0, 0)]
                         ELSE down
  /\ UNCHANGED <<envVars, httpVars, stateFile, wc_mmap, wc_samples, wc_run,
                 sent, stops>>

\* one iteration of `for line in new_lines`, lines 122-137, and the handler
\* of line 139.  fail names the telemetry call of the iteration that raises.
wc_process_line(fail) ==
  /\ wc_pc = "lines"
  /\ LET log_file == Head(log_files)
         line == strip(Head(new_lines).text)
         c == classify(line)
         m == record_metric(wc_measures, wc_mmap, wc_samples, c.measure, 1)
         nxt == wc_after_file(Tail(log_files), wc_source)
         rest == IF line # <<>> /\ fail # "none"
                 THEN <<>> ELSE Tail(new_lines)
     IN  /\ line = <<>> => fail = "none"
         /\ new_lines' = rest
         /\ wc_pc' = IF rest = <<>> THEN nxt.pc ELSE "lines"
         /\ wc_source' = IF rest = <<>> THEN nxt.source ELSE wc_source
         /\ log_files' = IF rest = <<>> THEN nxt.files ELSE log_files
         /\ sent' = IF line # <<>> /\ fail # "event"
                    THEN Append(sent, Event(log_file, Head(new_lines), c.level))
                    ELSE sent
         /\ wc_mmap' = IF line # <<>> /\ fail = "none" THEN m.mmap ELSE wc_mmap
         /\ wc_samples' = IF line # <<>> /\ fail = "none"
                          THEN m.samples ELSE wc_samples
         /\ wc_run' = IF fail # "none"
                      THEN [wc_run EXCEPT !.failed = TRUE,
                                          !.dropped = @ + Len(new_lines) - 1]
                      ELSE wc_run
  /\ UNCHANGED <<envVars, httpVars, stateFile, last_positions, stops, dirty,
                 readFrom, reads, cuts, down>>

\* record_metric("heartbeat", 1), line 156
wc_heartbeat ==
  /\ wc_pc = "heartbeat"
  /\ LET m == record_metric(wc_measures, wc_mmap, wc_samples, "heartbeat", 1)
     IN  /\ wc_mmap' = m.mmap
         /\ wc_samples' = m.samples
  /\ wc_pc' = "save"
  /\ UNCHANGED <<envVars, httpVars, stateFile, last_positions, wc_source,
                 log_files, new_lines, wc_run, obsVars>>

\* save_state(), lines 96-102
wc_save_open(open_fails) ==
  /\ wc_pc \in {"save", "final_save"}
  /\ IF open_fails
     THEN /\ wc_pc' = IF wc_pc = "save" THEN "sleep" ELSE "exited"
          /\ UNCHANGED stateFile
     ELSE /\ wc_pc' = IF wc_pc = "save" THEN "save_w" ELSE "final_save_w"
          /\ stateFile' = Corrupt
  /\ UNCHANGED <<envVars, httpVars, last_positions, wc_source, log_files,
                 new_lines, wc_mmap, wc_samples, wc_run, obsVars>>

wc_save_write ==
  /\ wc_pc \in {"save_w", "final_save_w"}
  /\ stateFile' = Json([last_positions |-> last_positions])
  /\ wc_pc' = IF wc_pc = "save_w" THEN "sleep" ELSE "exited"
  /\ wc_run' = IF wc_pc = "final_save_w"
               THEN [wc_run EXCEPT !.finalSaves = @ + 1] ELSE wc_run
  /\ UNCHANGED <<envVars, httpVars, last_positions, wc_source, log_files,
                 new_lines, wc_mmap, wc_samples, obsVars>>

\* time.sleep(POLL_INTERVAL) returns, line 159
wc_wake ==
  /\ wc_pc = "sleep"
  /\ wc_pc' = "poll"
  /\ UNCHANGED <<envVars, httpVars, stateFile, last_positions, wc_source,
                 log_files, new_lines, wc_mmap, wc_samples, wc_run, obsVars>>

WcPaths == {MS_LOG, SM_LOG}

\* SIGINT: the handler of line 160 runs when the try block (lines 149-159)
\* is being executed; `except Exception` (line 139) does not catch it.
wc_interrupt(max_stops) ==
  /\ wc_pc \in WcTry \cup {"load"}
  /\ stops < max_stops
  /\ stops' = stops + 1
  /\ wc_pc' = IF wc_pc = "load" THEN "exited" ELSE "final_save"
  /\ wc_run' = [wc_run EXCEPT !.sig = "interrupt"]
  /\ down' = [p \in DOMAIN down |->
                IF p \in WcPaths THEN [down[p] EXCEPT !.at = Sizes[p]]
                ELSE down[p]]
  /\ UNCHANGED <<envVars, httpVars, stateFile, last_positions, wc_source,
                 log_files, new_lines, wc_mmap, wc_samples, sent, dirty,
                 readFrom, reads, cuts>>

\* SIGTERM or a crash: no handler is installed, the process ends at once
wc_kill(max_stops) ==
  /\ wc_pc \in WcUp
  /\ stops < max_stops
  /\ stops' = stops + 1
  /\ wc_pc' = "exited"
  /\ wc_run' = [wc_run EXCEPT !.sig = "terminate"]
  /\ down' = [p \in DOMAIN down |->
                IF p \in WcPaths THEN [down[p] EXCEPT !.at = Sizes[p]]
                ELSE down[p]]
  /\ UNCHANGED <<envVars, httpVars, stateFile, last_positions, wc_source,
                 log_files, new_lines, wc_mmap, wc_samples, sent, dirty,
                 readFrom, reads, cuts>>

\* the script is started again: module globals take their initial values
wc_restart ==
  /\ wc_pc = "exited"
  /\ wc_pc' = "load"
  /\ last_positions' = NoObj
  /\ wc_source' = 1
  /\ log_files' = <<>>
  /\ new_lines' = <<>>
  /\ wc_mmap' = NoSamples
  /\ wc_samples' = NoSamples
  /\ wc_run' = FreshRun
  /\ down' = [p \in DOMAIN down |->
                IF p \in WcPaths THEN Window(down[p].at, Sizes[p])
                ELSE down[p]]
  /\ reads' = [p \in DOMAIN reads |-> IF p \in WcPaths THEN 0 ELSE reads[p]]
  /\ UNCHANGED <<envVars, httpVars, stateFile, sent, stops, dirty, readFrom, cuts>>

\* ------------------------------------------------------------ environment
Paths == {ACCESS_LOG} \cup WcPaths

\* the log files a running deployment writes and watches
Watched ==
  (IF http_pc # "absent" THEN {ACCESS_LOG} ELSE {})
  \cup (IF wc_pc # "absent" THEN {MS_LOG} ELSE {})

\* the server creates a log file
CreateFile(p) ==
  /\ p \notin present
  /\ present' = present \cup {p}
  /\ data' = [data EXCEPT ![p] = <<>>]
  /\ dirty' = [dirty EXCEPT ![p] = TRUE]
  /\ UNCHANGED <<rotations, stateFile, httpVars, wcVars, sent, stops,
                 readFrom, reads, cuts, down>>

\* the server appends to a log file
AppendTo(p, c, max_len) ==
  /\ p \in present
  /\ Len(data[p]) < max_len
  /\ data' = [data EXCEPT ![p] = Append(@, c)]
  /\ dirty' = [dirty EXCEPT ![p] = TRUE]
  /\ UNCHANGED <<present, rotations, stateFile, httpVars, wcVars, sent, stops,
                 readFrom, reads, cuts, down>>

\* log rotation: the file is replaced by a new, empty one
Rotate(p, max_rotations) ==
  /\ p \in present
  /\ data[p] # <<>>
  /\ rotations < max_rotations
  /\ rotations' = rotations + 1
  /\ data' = [data EXCEPT ![p] = <<>>]
  /\ dirty' = [dirty EXCEPT ![p] = TRUE]
  /\ UNCHANGED <<present, stateFile, httpVars, wcVars, sent, stops, readFrom,
                 reads, cuts, down>>

\* the file is moved away; its content is kept for when it is put back
RemoveFile(p, max_removals) ==
  /\ p \in present
  /\ rotations < max_removals
  /\ rotations' = rotations + 1
  /\ present' = present \ {p}
  /\ UNCHANGED <<data, stateFile, httpVars, wcVars, obsVars>>

\* a file that is not there appears: a new one is empty, one that was moved
\* away comes back with the content it had
RestoreFile(p) ==
  /\ p \notin present
  /\ present' = present \cup {p}
  /\ dirty' = [dirty EXCEPT ![p] = TRUE]
  /\ UNCHANGED <<data, rotations, stateFile, httpVars, wcVars, sent, stops,
                 readFrom, reads, cuts, down>>

\* ---------------------------------------------------------- specifications
InitEnv ==
  /\ present = {}
  /\ data = [p \in Paths |-> <<>>]
  /\ rotations = 0
  /\ sent = <<>>
  /\ stops = 0
  /\ dirty = [p \in Paths |-> TRUE]
  /\ readFrom = [p \in Paths |-> 0]
  /\ reads = [p \in Paths |-> 0]
  /\ cuts = [p \in Paths |-> {}]
  /\ down = [p \in Paths |-> Window(0, 0)]

\* the globals of each script when it starts; pc is "load" for a script that
\* is deployed and "absent" for one that is not
InitHttp(pc) ==
  /\ http_pc = pc
  /\ last_access_pos = 0
  /\ lines = <<>>
  /\ request_count = 0
  /\ error_count = 0
  /\ response_times = <<>>
  /\ http_mmap = NoSamples
  /\ http_samples = NoSamples
  /\ report = <<>>
  /\ http_run = FreshRun

InitWc(pc) ==
  /\ wc_pc = pc
  /\ last_positions = NoObj
  /\ wc_source = 1
  /\ log_files = <<>>
  /\ new_lines = <<>>
  /\ wc_mmap = NoSamples
  /\ wc_samples = NoSamples
  /\ wc_run = FreshRun

\* one of the two shippers is deployed on a host with no state file
Init ==
  /\ InitEnv
  /\ stateFile = Missing
  /\ \/ InitHttp("load") /\ InitWc("absent")
     \/ InitHttp("absent") /\ InitWc("load")

HttpSteps ==
  \/ http_load_state
  \/ http_send_access_metrics(FALSE)
  \/ http_process_line("none")
  \/ http_summary
  \/ http_heartbeat
  \/ http_save_open(FALSE)
  \/ http_save_write
  \/ http_wake

WcSteps ==
  \/ wc_load_state
  \/ wc_send_new_logs
  \/ wc_read_file(FALSE)
  \/ wc_process_line("none")
  \/ wc_heartbeat
  \/ wc_save_open(FALSE)
  \/ wc_save_write
  \/ wc_wake

TailSymbols(p) == IF p = ACCESS_LOG THEN {NL, "g", "q2"} ELSE {NL, " ", "i"}

Writer(max_len) ==
  \/ \E p \in Watched : CreateFile(p)
  \/ \E p \in Watched : \E c \in TailSymbols(p) : AppendTo(p, c, max_len)

\* Spec: runs that end with an interrupt and are started again
Next ==
  \/ HttpSteps \/ WcSteps \/ Writer(MaxLen)
  \/ http_interrupt(MaxStops) \/ wc_interrupt(MaxStops)
  \/ http_restart \/ wc_restart

Spec == Init /\ [][Next]_vars

\* SpecRotate: the same with log rotation
NextRotate ==
  \/ HttpSteps \/ WcSteps \/ Writer(MaxRotateLen)
  \/ http_interrupt(MaxRestarts) \/ wc_interrupt(MaxRestarts)
  \/ http_restart \/ wc_restart
  \/ \E p \in Watched : Rotate(p, MaxRotations)

SpecRotate == Init /\ [][NextRotate]_vars

\* SpecCrash: runs that end with the process being killed
NextCrash ==
  \/ HttpSteps \/ WcSteps \/ Writer(MaxLen)
  \/ http_kill(MaxStops) \/ wc_kill(MaxStops)
  \/ http_restart \/ wc_restart

SpecCrash == Init /\ [][NextCrash]_vars

\* SpecRestart: a shipper is started on a host whose log_state.json is
\* missing, damaged, or holds any offsets (its own or the other shipper's)
StateFiles ==
  {Missing, Corrupt, Unreadable, NotDict, Json(NoObj)}
  \cup {Json([last_access_pos |-> n]) : n \in 0..MaxRestartLen}
  \cup {Json([last_positions |-> [f \in {MS_LOG} |-> n]]) :
          n \in 0..MaxRestartLen}

InitRestart ==
  /\ InitEnv
  /\ stateFile \in StateFiles
  /\ \/ InitHttp("load") /\ InitWc("absent")
     \/ InitHttp("absent") /\ InitWc("load")

NextRestart ==
  \/ HttpSteps \/ WcSteps \/ Writer(MaxRestartLen)
  \/ http_interrupt(MaxRestarts) \/ wc_interrupt(MaxRestarts)
  \/ http_restart \/ wc_restart

SpecRestart == InitRestart /\ [][NextRestart]_vars

\* SpecFault: telemetry calls may raise
NextFault ==
  \/ HttpSteps \/ WcSteps \/ Writer(MaxLen)
  \/ \E f \in {"metric", "event"} : http_process_line(f)
  \/ \E f \in {"metric", "event"} : wc_process_line(f)
  \/ http_restart

SpecFault == Init /\ [][NextFault]_vars

\* SpecPercentile: the end of a cycle of the access shipper in which every
\* line matched, for any response times of its requests
SampleTimes == {100, 200, 300, 400, 500}
SampleLists == UNION {[1..n -> SampleTimes] : n \in 1..MaxSamples}

InitPercentile ==
  /\ InitEnv
  /\ stateFile = Missing
  /\ InitWc("absent")
  /\ http_pc = "lines"
  /\ last_access_pos = 0
  /\ lines = <<>>
  /\ response_times \in SampleLists
  /\ request_count = Len(response_times)
  /\ error_count = 0
  /\ http_mmap = [m \in {"response_time"} |->
                    response_times[Len(response_times)]]
  /\ http_samples = [m \in {"response_time"} |-> Len(response_times)]
  /\ report = <<>>
  /\ http_run = FreshRun

SpecPercentile == InitPercentile /\ [][http_summary]_vars

\* SpecBatch: the access shipper starts on a host where access.log already
\* holds a batch of lines, and runs its cycles on it
RECURSIVE Repeat(_, _)
Repeat(s, n) == IF n = 0 THEN <<>> ELSE s \o Repeat(s, n - 1)

LineKinds == {<<"q2", NL>>, <<"q4", NL>>, <<"q399", NL>>, <<"q400", NL>>,
              <<"g", NL>>}

RECURSIVE BatchesOf(_)
BatchesOf(n) ==
  IF n = 0 THEN {<<>>}
  ELSE {b \o l : b \in BatchesOf(n - 1), l \in LineKinds}

\* 20 requests, 5 of them with a status >= 400
TwentyRequests == Repeat(<<"q4", NL, "q2", NL, "q2", NL, "q2", NL>>, 5)

\* 10 lines, 3 of them garbage
TenLines ==
  <<"g", NL, "q2", NL, "q2", NL, "g", NL, "q4", NL, "q2", NL, "q2", NL,
    "g", NL, "q2", NL, "q400", NL>>

Batches ==
  UNION {BatchesOf(n) : n \in 0..MaxBatch} \cup {TwentyRequests, TenLines}

InitBatch ==
  /\ present = {ACCESS_LOG}
  /\ data \in {[p \in Paths |-> IF p = ACCESS_LOG THEN b ELSE <<>>] :
                 b \in Batches}
  /\ rotations = 0
  /\ sent = <<>>
  /\ stops = 0
  /\ dirty = [p \in Paths |-> TRUE]
  /\ readFrom = [p \in Paths |-> 0]
  /\ reads = [p \in Paths |-> 0]
  /\ cuts = [p \in Paths |-> {}]
  /\ down = [p \in Paths |-> Window(0, 0)]
  /\ stateFile = Missing
  /\ InitHttp("load")
  /\ InitWc("absent")

SpecBatch == InitBatch /\ [][HttpSteps]_vars

\* SpecLogBatch: the application-log shipper starts on a host where the
\* MethodServer log already holds a batch of lines, and runs its cycles on it
LogLineKinds == {<<"i", NL>>, <<"e", NL>>, <<"w", NL>>, <<"e", "w", NL>>,
                 <<"w", "e", NL>>, <<" ", NL>>}

RECURSIVE LogBatchesOf(_)
LogBatchesOf(n) ==
  IF n = 0 THEN {<<>>}
  ELSE {b \o l : b \in LogBatchesOf(n - 1), l \in LogLineKinds}

LogBatches == UNION {LogBatchesOf(n) : n \in 0..MaxBatch}

InitLogBatch ==
  /\ present = {MS_LOG}
  /\ data \in {[p \in Paths |-> IF p = MS_LOG THEN b ELSE <<>>] :
                 b \in LogBatches}
  /\ rotations = 0
  /\ sent = <<>>
  /\ stops = 0
  /\ dirty = [p \in Paths |-> TRUE]
  /\ readFrom = [p \in Paths |-> 0]
  /\ reads = [p \in Paths |-> 0]
  /\ cuts = [p \in Paths |-> {}]
  /\ down = [p \in Paths |-> Window(0, 0)]
  /\ stateFile = Missing
  /\ InitHttp("absent")
  /\ InitWc("load")

SpecLogBatch == InitLogBatch /\ [][WcSteps]_vars

\* SpecSourceFault: every monitored file exists and holds a batch of lines;
\* opening access.log or the MethodServer log may fail, and so may a telemetry
\* call made for one of their lines
SmallLogBatches == UNION {LogBatchesOf(n) : n \in 0..(MaxBatch - 1)}

InitSourceFault ==
  /\ present = Paths
  /\ \E a \in Batches : \E m \in SmallLogBatches : \E sm \in SmallLogBatches :
       data = [p \in Paths |-> IF p = ACCESS_LOG THEN a
                               ELSE IF p = MS_LOG THEN m ELSE sm]
  /\ rotations = 0
  /\ sent = <<>>
  /\ stops = 0
  /\ dirty = [p \in Paths |-> TRUE]
  /\ readFrom = [p \in Paths |-> 0]
  /\ reads = [p \in Paths |-> 0]
  /\ cuts = [p \in Paths |-> {}]
  /\ down = [p \in Paths |-> Window(0, 0)]
  /\ stateFile = Missing
  /\ \/ InitHttp("load") /\ InitWc("absent")
        /\ data[MS_LOG] = <<>> /\ data[SM_LOG] = <<>>
     \/ InitHttp("absent") /\ InitWc("load") /\ data[ACCESS_LOG] = <<>>

NextSourceFault ==
  \/ HttpSteps \/ WcSteps
  \/ http_send_access_metrics(TRUE)
  \/ \E f \in {"metric", "event"} : http_process_line(f)
  \/ http_restart
  \/ wc_pc = "files" /\ Head(log_files) = MS_LOG /\ wc_read_file(TRUE)
  \/ \E f \in {"metric", "event"} :
       wc_pc = "lines" /\ Head(log_files) = MS_LOG /\ wc_process_line(f)

SpecSourceFault == InitSourceFault /\ [][NextSourceFault]_vars

\* SpecMissing: a monitored file can be moved away for a while and put back
NextMissing ==
  \/ HttpSteps \/ WcSteps
  \/ \E p \in Watched : \E c \in TailSymbols(p) : AppendTo(p, c, MaxLen)
  \/ \E p \in Watched : RemoveFile(p, MaxRemovals)
  \/ \E p \in Watched : RestoreFile(p)

SpecMissing == Init /\ [][NextMissing]_vars

\* `for source, pattern in LOG_PATTERNS.items()`, lines 152-153, of a
\* deployment whose LOG_PATTERNS is empty (wc_source = 0): the loop body is
\* never entered
wc_no_patterns ==
  /\ wc_pc = "poll"
  /\ wc_source = 0
  /\ wc_pc' = "heartbeat"
  /\ wc_samples' = NoSamples
  /\ wc_run' = [wc_run EXCEPT !.failed = FALSE, !.dropped = 0]
  /\ UNCHANGED <<envVars, httpVars, stateFile, last_positions, wc_source,
                 log_files, new_lines, wc_mmap, obsVars>>

\* SpecConfig: the application-log shipper is started with a configuration
\* error: either LOG_PATTERNS is empty (wc_source = 0), or the patterns are
\* the usual ones and the state directory cannot be written, so that
\* open(STATE_FILE, "w") raises every time.
InitConfig ==
  /\ InitEnv
  /\ stateFile = Missing
  /\ InitHttp("absent")
  /\ wc_pc = "load"
  /\ last_positions = NoObj
  /\ wc_source \in {0, 1}
  /\ log_files = <<>>
  /\ new_lines = <<>>
  /\ wc_mmap = NoSamples
  /\ wc_samples = NoSamples
  /\ wc_run = FreshRun

NextConfig ==
  \/ wc_load_state
  \/ wc_no_patterns
  \/ wc_source # 0 /\ wc_send_new_logs
  \/ wc_source # 0 /\ wc_read_file(FALSE)
  \/ wc_source # 0 /\ wc_process_line("none")
  \/ wc_heartbeat
  \/ wc_save_open(wc_source # 0)
  \/ wc_save_write
  \/ wc_wake
  \/ Writer(MaxLen)

SpecConfig == InitConfig /\ [][NextConfig]_vars

\* SpecShared: the two shippers run in the same working directory, so that
\* STATE_FILE = "log_state.json" names one file for both; each log file
\* holds one line.
InitShared ==
  /\ present = Paths
  /\ \E a \in BatchesOf(1) : \E m \in LogBatchesOf(1) :
       data = [p \in Paths |-> IF p = ACCESS_LOG THEN a
                               ELSE IF p = MS_LOG THEN m ELSE <<>>]
  /\ rotations = 0
  /\ sent = <<>>
  /\ stops = 0
  /\ dirty = [p \in Paths |-> TRUE]
  /\ readFrom = [p \in Paths |-> 0]
  /\ reads = [p \in Paths |-> 0]
  /\ cuts = [p \in Paths |-> {}]
  /\ down = [p \in Paths |-> Window(0, 0)]
  /\ stateFile = Missing
  /\ InitHttp("load")
  /\ InitWc("load")

SpecShared == InitShared /\ [][HttpSteps \/ WcSteps]_vars

\* SpecSaveFault: open(STATE_FILE, "w") can raise in any save_state()
NextSaveFault ==
  \/ HttpSteps \/ WcSteps \/ Writer(MaxLen)
  \/ http_save_open(TRUE)
  \/ wc_save_open(TRUE)

SpecSaveFault == Init /\ [][NextSaveFault]_vars

\* SpecTwoFiles: the application-log shipper with the log files of two
\* sources, which appear, grow (by text without line end) and are moved
\* away independently; an open of a log file can fail.
InitTwoFiles ==
  /\ InitEnv
  /\ stateFile = Missing
  /\ InitHttp("absent")
  /\ InitWc("load")

NextTwoFiles ==
  \/ WcSteps
  \/ wc_read_file(TRUE)
  \/ \E p \in WcPaths : RestoreFile(p)
  \/ \E p \in WcPaths : RemoveFile(p, MaxRemovals)
  \/ \E p \in WcPaths : AppendTo(p, "i", MaxRestartLen)

SpecTwoFiles == InitTwoFiles /\ [][NextTwoFiles]_vars

\* ============================================================ properties
Range(s) == {s[i] : i \in DOMAIN s}
Drop(s, n) == SubSeq(s, n + 1, Len(s))

RECURSIVE Flatten(_)
Flatten(ls) == IF ls = <<>> THEN <<>> ELSE Head(ls).text \o Flatten(Tail(ls))

\* the offset log_state.json holds for a path, 0 when it holds none
PersistedOffset(p) ==
  IF stateFile.kind # "json" THEN 0
  ELSE IF p = ACCESS_LOG THEN dict_get(stateFile.obj, "last_access_pos", 0)
  ELSE dict_get(dict_get(stateFile.obj, "last_positions", NoObj), p, 0)

\* the offset the running shipper holds for a path
Offset(p) ==
  IF p = ACCESS_LOG THEN last_access_pos ELSE dict_get(last_positions, p, 0)

\* a step that reads path p, and the lines that read returns
ReadStep(p) == reads'[p] # reads[p] /\ reads'[p] # 0
FirstReadOfRun(p) == reads[p] = 0 /\ reads'[p] = 1
LinesRead(p) == IF p = ACCESS_LOG THEN lines' ELSE new_lines'

Terminated(l) == l.text[Len(l.text)] = NL
CompleteLines(content) ==
  {l \in Range(SplitLines(content, 0)) : Terminated(l)}

\* a line the shipper forwards as an event when it processes it
Forwardable(p, l) ==
  IF p = ACCESS_LOG THEN parse_log_line(strip(l.text)).matched
  ELSE strip(l.text) # <<>>

\* the events of a path, and those that carry a line in full
EventsOf(p) == {i \in DOMAIN sent : sent[i].path = p}
WholeEvents(p, l) ==
  {i \in EventsOf(p) : sent[i].at = l.at /\ sent[i].msg = strip(l.text)}

\* the shipper is past the line loop of its cycle
CycleOver(p) ==
  IF p = ACCESS_LOG THEN http_pc \in {"heartbeat", "save", "save_w", "sleep"}
  ELSE wc_pc \in {"heartbeat", "save", "save_w", "sleep"}

\* C1 (idempotent restart): the first read of a run returns exactly the
\* content after the persisted offset, every line of it starting at or after
\* that offset; and when nothing was written to the file since the previous
\* run read it, the read returns no line, so the run forwards no event.
C1_IdempotentRestart ==
  [][\A p \in Paths : FirstReadOfRun(p) =>
        /\ readFrom'[p] = PersistedOffset(p)
        /\ Flatten(LinesRead(p)) = Drop(data[p], PersistedOffset(p))
        /\ \A l \in Range(LinesRead(p)) : l.at >= PersistedOffset(p)
        /\ ~dirty[p] => LinesRead(p) = <<>> /\ sent' = sent]_vars

\* a restarted access shipper has read a file it forwarded from before,
\* unchanged since, from the persisted offset and got nothing
C1_Witness ==
  /\ stops >= 1
  /\ http_pc = "lines"
  /\ reads[ACCESS_LOG] = 1
  /\ lines = <<>>
  /\ readFrom[ACCESS_LOG] = Len(data[ACCESS_LOG])
  /\ PersistedOffset(ACCESS_LOG) = Len(data[ACCESS_LOG])
  /\ \E i \in EventsOf(ACCESS_LOG) : sent[i].at < readFrom[ACCESS_LOG]

\* C2 (no loss across downtime): once the first cycle after a restart is
\* over, every terminated line that was appended while the shipper was down
\* has been forwarded, and no line has been forwarded twice.
C2_NoLossAcrossDowntime ==
  /\ \A p \in Paths :
       (stops >= 1 /\ reads[p] = 1 /\ CycleOver(p)) =>
         \A l \in CompleteLines(data[p]) :
           (/\ down[p].from <= l.at
            /\ l.at + Len(l.text) <= down[p].to
            /\ Forwardable(p, l)) => WholeEvents(p, l) # {}
  /\ \A i, j \in DOMAIN sent :
       (sent[i].path = sent[j].path /\ sent[i].at = sent[j].at) => i = j

\* a restarted access shipper resumed behind the content it had read before
\* the stop and its first cycle forwarded a line written during the downtime
C2_Witness ==
  /\ stops >= 1
  /\ reads[ACCESS_LOG] = 1
  /\ CycleOver(ACCESS_LOG)
  /\ readFrom[ACCESS_LOG] >= 1
  /\ \E l \in CompleteLines(data[ACCESS_LOG]) :
       /\ down[ACCESS_LOG].from <= l.at
       /\ l.at + Len(l.text) <= down[ACCESS_LOG].to
       /\ Forwardable(ACCESS_LOG, l)
       /\ WholeEvents(ACCESS_LOG, l) # {}

\* the shipper sleeps between two cycles
AtRest(p) == IF p = ACCESS_LOG THEN http_pc = "sleep" ELSE wc_pc = "sleep"

\* the offsets a line occupies, and the events that start inside it
Span(l) == l.at .. (l.at + Len(l.text) - 1)
EventsWithin(p, l) == {i \in EventsOf(p) : sent[i].at \in Span(l)}

\* C3 (at-least-once under crash): whenever the shipper is at rest, every
\* terminated line below its offset that it forwards when it processes it has
\* been forwarded in full by some event, whatever crashes came before.
C3_AtLeastOnce ==
  \A p \in Paths : AtRest(p) =>
    \A l \in CompleteLines(data[p]) :
      (Forwardable(p, l) /\ l.at + Len(l.text) <= Offset(p)) =>
        \E i \in EventsWithin(p, l) : sent[i].msg = strip(l.text)

\* the end of the last terminated line at or after an offset
LastLineEnd(content, from) ==
  LET ends == {k \in (from + 1)..Len(content) : content[k] = NL}
  IN  IF ends = {} THEN from ELSE CHOOSE k \in ends : \A j \in ends : j <= k

UnterminatedTail(p) ==
  Offset(p) < Len(data[p]) /\ data[p][Len(data[p])] # NL

\* C4 (partial-line safety): a read of a file whose unread tail ends without
\* a terminator returns terminated lines only, and leaves the offset just
\* after the last terminated line.
C4_PartialLineSafety ==
  [][\A p \in Paths : (ReadStep(p) /\ UnterminatedTail(p)) =>
        /\ \A l \in Range(LinesRead(p)) : Terminated(l)
        /\ Offset(p)' = LastLineEnd(data[p], Offset(p))]_vars

\* C5 (completed-line exactly-once): when a shipper that has never been
\* stopped is at rest, a terminated line below its offset that an earlier
\* read ended inside of has been forwarded by exactly one event if it is
\* forwarded at all, and every event that starts inside the line carries the
\* line in full.
C5_CompletedLineOnce ==
  \A p \in Paths : (stops = 0 /\ AtRest(p)) =>
    \A l \in CompleteLines(data[p]) :
      (/\ \E c \in cuts[p] : l.at < c /\ c < l.at + Len(l.text)
       /\ l.at + Len(l.text) <= Offset(p)) =>
        /\ Forwardable(p, l) => Cardinality(WholeEvents(p, l)) = 1
        /\ EventsWithin(p, l) \subseteq WholeEvents(p, l)

\* C6 (rotation reset): a read of a file that is shorter than the offset
\* held for it starts at 0, returns the whole file and leaves an offset that
\* is at most the size of the file.
C6_RotationReset ==
  [][\A p \in Paths : (ReadStep(p) /\ Len(data[p]) < Offset(p)) =>
        /\ readFrom'[p] = 0
        /\ Flatten(LinesRead(p)) = data[p]
        /\ Offset(p)' <= Len(data[p])]_vars

\* C7 (final persist on stop): a shipper that has exited on an interrupt or
\* a termination signal has saved its state once on the way out, and the
\* state file holds its offsets.
C7_FinalPersistOnStop ==
  /\ (http_pc = "exited" /\ http_run.sig \in {"interrupt", "terminate"}) =>
       /\ http_run.finalSaves = 1
       /\ stateFile = Json([last_access_pos |-> last_access_pos])
  /\ (wc_pc = "exited" /\ wc_run.sig \in {"interrupt", "terminate"}) =>
       /\ wc_run.finalSaves = 1
       /\ stateFile = Json([last_positions |-> last_positions])

\* C8 (forwarding-failure isolation): after a telemetry call has failed in a
\* cycle the shipper is still running, no line read in that cycle has been
\* left unprocessed, the offset the cycle's read left stands, and once the
\* shipper is at rest the heartbeat has been recorded and the state saved.
C8_ForwardingFailureIsolation ==
  /\ http_run.failed =>
       /\ http_pc # "exited"
       /\ http_run.dropped = 0
       /\ last_access_pos >= Len(data[ACCESS_LOG]) \/ dirty[ACCESS_LOG]
       /\ http_pc = "sleep" =>
            /\ "heartbeat" \in DOMAIN http_samples
            /\ stateFile = Json([last_access_pos |-> last_access_pos])
  /\ wc_run.failed =>
       /\ wc_pc # "exited"
       /\ wc_run.dropped = 0
       /\ Offset(MS_LOG) >= Len(data[MS_LOG]) \/ dirty[MS_LOG]
       /\ wc_pc = "sleep" =>
            /\ "heartbeat" \in DOMAIN wc_samples
            /\ stateFile = Json([last_positions |-> last_positions])

\* C9 (state load tolerance): load_state always hands over to the polling
\* loop, and when log_state.json is missing, unreadable or not a JSON object
\* it leaves last_access_pos = 0 and last_positions empty.
C9_StateLoadTolerance ==
  [][/\ (http_pc = "load" /\ http_pc' # "load"
           /\ http_run'.sig # "interrupt") =>
          /\ http_pc' = "poll"
          /\ stateFile.kind # "json" => last_access_pos' = 0
     /\ (wc_pc = "load" /\ wc_pc' # "load" /\ wc_run'.sig # "interrupt") =>
          /\ wc_pc' = "poll"
          /\ stateFile.kind # "json" => last_positions' = NoObj]_vars

\* the access shipper has started polling at offset 0 on a host whose state
\* file cannot be used
C9_Witness ==
  /\ http_pc = "poll"
  /\ stops = 0
  /\ reads[ACCESS_LOG] = 0
  /\ stateFile.kind \in {"corrupt", "unreadable", "notdict"}
  /\ last_access_pos = 0

\* 100 times the value linear interpolation gives at index q/100 * (N - 1)
Interpolated100(s, q) ==
  LET a == Sorted(s)
      n == Len(a)
      lo == (q * (n - 1)) \div 100
      fr == (q * (n - 1)) % 100
      hi == Min(lo + 1, n - 1)
  IN  100 * a[lo + 1] + fr * (a[hi + 1] - a[lo + 1])

\* v is that value with its fraction dropped, or the whole number below it
\* when the value is itself a whole number
LinearPercentile(v, s, q) ==
  100 * v <= Interpolated100(s, q) /\ Interpolated100(s, q) <= 100 * v + 100

LatestLines(p) ==
  Range(SplitLines(Drop(data[p], readFrom[p]), readFrom[p]))

\* those of them that match the access-log pattern, and their status
Matching(p) ==
  {l \in LatestLines(p) : strip(l.text) # <<>>
                            /\ strip(l.text)[1] \in DOMAIN RequestStatus}
StatusOf(l) == RequestStatus[strip(l.text)[1]]

\* C11 (error-rate arithmetic): at the end of an access-log cycle
\* request_count is the number of lines read that match the pattern,
\* error_count the number of those with a status of 400 or more, and the
\* error_rate reported and recorded is error_count / request_count * 100;
\* 20 requests with 5 statuses >= 400 give error_count = 5 and 25.0.
C11_ErrorRateArithmetic ==
  (CycleOver(ACCESS_LOG) /\ reads[ACCESS_LOG] >= 1) =>
    /\ request_count = Cardinality(Matching(ACCESS_LOG))
    /\ error_count =
         Cardinality({l \in Matching(ACCESS_LOG) : StatusOf(l) >= 400})
    /\ report # <<>> =>
         /\ report[1].Requests = request_count
         /\ report[1].Errors = error_count
         /\ report[1].ErrorRate = <<100 * error_count, request_count>>
         /\ http_mmap["error_rate"] = report[1].ErrorRate
    /\ (data[ACCESS_LOG] = TwentyRequests /\ readFrom[ACCESS_LOG] = 0) =>
         /\ request_count = 20
         /\ error_count = 5
         /\ report[1].ErrorRate[1] = 25 * report[1].ErrorRate[2]

\* a cycle over the 20 requests has reported its summary
C11_Witness ==
  /\ CycleOver(ACCESS_LOG)
  /\ data[ACCESS_LOG] = TwentyRequests
  /\ readFrom[ACCESS_LOG] = 0
  /\ report # <<>>
  /\ report[1].Errors = 5

\* samples of a measure recorded so far in the cycle
WcSamples(m) == IF m \in DOMAIN wc_samples THEN wc_samples[m] ELSE 0

\* the level and the counter the precedence ERROR, WARN, INFO gives a line
LevelOf(t) ==
  IF "e" \in Range(t) THEN "ERROR"
  ELSE IF "w" \in Range(t) THEN "WARNING" ELSE "INFO"
CounterOf(t) ==
  IF "e" \in Range(t) THEN "error_count"
  ELSE IF "w" \in Range(t) THEN "warn_count" ELSE "info_count"

\* C12 (classification precedence): processing a non-blank line of an
\* application log forwards one event, at level ERROR if the line contains
\* "ERROR", else WARN if it contains "WARN", else INFO, and records one sample
\* of the counter of that level and none of the two other counters.
C12_Classification ==
  [][(/\ wc_pc = "lines"
      /\ new_lines # <<>>
      /\ new_lines' # new_lines
      /\ strip(Head(new_lines).text) # <<>>) =>
        LET t == strip(Head(new_lines).text) IN
          /\ Len(sent') = Len(sent) + 1
          /\ sent'[Len(sent')].level = LevelOf(t)
          /\ \A m \in {"error_count", "warn_count", "info_count"} :
               WcSamples(m)' =
                 WcSamples(m) + (IF m = CounterOf(t) THEN 1 ELSE 0)]_vars

\* every line of a file that matches the access-log pattern
AllMatching(p) ==
  {l \in Range(SplitLines(data[p], 0)) :
     strip(l.text) # <<>> /\ strip(l.text)[1] \in DOMAIN RequestStatus}

\* C13 (no-match lines never crash the cycle): the access shipper never
\* exits over a batch that holds lines not matching the pattern; at the end
\* of the cycle there is one event for each matching line and none for any
\* other line, and the offset is at the end of the batch.  The batch of 10
\* lines with 3 garbage lines (a tenth of 100 with 30) gives 7 events.
C13_NoMatchLines ==
  /\ http_pc # "exited"
  /\ (CycleOver(ACCESS_LOG) /\ reads[ACCESS_LOG] >= 1) =>
       /\ Len(sent) = Cardinality(AllMatching(ACCESS_LOG))
       /\ \A l \in AllMatching(ACCESS_LOG) :
            Cardinality(WholeEvents(ACCESS_LOG, l)) = 1
       /\ \A i \in DOMAIN sent :
            \E l \in AllMatching(ACCESS_LOG) : sent[i].at = l.at
       /\ last_access_pos = Len(data[ACCESS_LOG])
       /\ data[ACCESS_LOG] = TenLines => Len(sent) = 7

\* the cycle over the 10 lines is over, with 7 events
C13_Witness ==
  /\ CycleOver(ACCESS_LOG)
  /\ reads[ACCESS_LOG] = 1
  /\ data[ACCESS_LOG] = TenLines
  /\ Len(sent) = 7
  /\ last_access_pos = Len(TenLines)

\* C14 (atomic persist): whenever a shipper process has ended, at whatever
\* point of save_state, log_state.json is absent or holds a complete mapping;
\* it is never left empty or cut short.
C14_AtomicPersist ==
  (http_pc = "exited" \/ wc_pc = "exited") =>
    stateFile.kind \in {"missing", "json"}

\* C15 (cycle ordering): a cycle persists its offsets before it emits its
\* heartbeat: once the heartbeat of a cycle has been recorded, a save_state
\* of that cycle has completed and log_state.json holds the offsets the
\* shipper holds.
C15_CycleOrdering ==
  /\ (http_pc \in HttpTry /\ "heartbeat" \in DOMAIN http_samples) =>
       /\ http_pc = "sleep"
       /\ stateFile = Json([last_access_pos |-> last_access_pos])
  /\ (wc_pc \in WcTry /\ "heartbeat" \in DOMAIN wc_samples) =>
       /\ wc_pc = "sleep"
       /\ stateFile = Json([last_positions |-> last_positions])

\* C16 (cancellation lets the in-flight cycle finish): when a shipper has
\* been told to stop, no line it has read is left unprocessed and no file of
\* the cycle is left unread on the way to the final save, and every matching
\* line below the offset it persists has been forwarded.
C16_CancellationFinishesCycle ==
  /\ http_run.sig = "interrupt" =>
       /\ lines = <<>>
       /\ (http_pc = "exited" /\ http_run.finalSaves = 1 /\ stops = 1) =>
            \A l \in AllMatching(ACCESS_LOG) :
              (Terminated(l) /\ l.at + Len(l.text) <= last_access_pos) =>
                EventsWithin(ACCESS_LOG, l) # {}
  /\ wc_run.sig = "interrupt" => new_lines = <<>> /\ log_files = <<>>

\* the other source has been read to its end and its lines forwarded
OtherSourceDone ==
  /\ Offset(SM_LOG) = Len(data[SM_LOG])
  /\ \A l \in Range(SplitLines(data[SM_LOG], 0)) :
       strip(l.text) # <<>> => WholeEvents(SM_LOG, l) # {}

\* C17 (per-source failure isolation): a failure to open one source file or
\* to handle one of its lines never ends the process; the cycle still reads
\* and forwards the other source file, records the heartbeat and saves the
\* state.
C17_PerSourceIsolation ==
  /\ http_pc # "exited"
  /\ wc_pc # "exited"
  /\ http_pc = "sleep" =>
       /\ "heartbeat" \in DOMAIN http_samples
       /\ stateFile = Json([last_access_pos |-> last_access_pos])
  /\ wc_pc \in {"heartbeat", "save", "save_w", "sleep"} => OtherSourceDone
  /\ wc_pc = "sleep" =>
       /\ "heartbeat" \in DOMAIN wc_samples
       /\ stateFile = Json([last_positions |-> last_positions])

\* a step of a shipper
ShipperStep == httpVars' # httpVars \/ wcVars' # wcVars

\* C18 (missing file keeps position): while a tracked file does not exist,
\* no step of the shipper reads lines of it, changes the offset held for it
\* or ends the process, and a save writes that offset; since the offset is
\* kept, no event is ever forwarded for an offset that already has one.
C18_MissingFileKeepsPosition ==
  [][/\ \A p \in Watched : (p \notin present /\ ShipperStep) =>
          /\ Offset(p)' = Offset(p)
          /\ ~ReadStep(p)
          /\ (p = ACCESS_LOG /\ http_pc = "poll") =>
                (http_pc' = "heartbeat" /\ sent' = sent)
          /\ http_pc' # "exited" /\ wc_pc' # "exited"
          /\ (stateFile' # stateFile /\ stateFile'.kind = "json") =>
                PersistedOffset(p)' = Offset(p)
     /\ sent' # sent =>
          \A i \in DOMAIN sent :
            sent[i].path = sent'[Len(sent')].path
              => sent[i].at # sent'[Len(sent')].at]_vars

\* the access shipper has run the read of a cycle while access.log was
\* away and still holds the offset it had reached before
C18_Witness ==
  /\ ACCESS_LOG \notin present
  /\ http_pc = "heartbeat"
  /\ http_samples = NoSamples
  /\ request_count >= 1
  /\ last_access_pos >= 1
  /\ PersistedOffset(ACCESS_LOG) = last_access_pos

\* the shipper of a path is running (a start of the process begins with the
\* offsets of the module, before load_state puts the stored ones back)
Running(p) == IF p = ACCESS_LOG THEN http_pc # "exited" ELSE wc_pc # "exited"

\* C19 (offset monotonicity): no step of a running shipper lowers the offset
\* held for a path unless the file is then smaller than that offset, and
\* after a read of a file the offset held for it is at most the size of the
\* file.
C19_OffsetMonotonicity ==
  [][\A p \in Watched :
       /\ (Running(p) /\ Offset(p)' < Offset(p)) => Len(data[p]) < Offset(p)
       /\ ReadStep(p) => Offset(p)' <= Len(data[p])]_vars

\* samples of a measure recorded so far in the cycle of the access shipper
HttpSamples(m) == IF m \in DOMAIN http_samples THEN http_samples[m] ELSE 0

\* C20 (empty access-log cycle emits no snapshot): once the summary step of
\* a cycle that read access.log is over, a cycle without matching line has
\* recorded no sample of request_count, error_rate or avg_response_time and
\* logged no summary, and a cycle with matching lines has recorded one
\* sample of each and logged one summary.
C20_EmptyCycleNoSnapshot ==
  (CycleOver(ACCESS_LOG) /\ reads[ACCESS_LOG] >= 1) =>
    \A m \in {"request_count", "error_rate", "avg_response_time"} :
      IF request_count = 0
      THEN HttpSamples(m) = 0 /\ report = <<>>
      ELSE HttpSamples(m) = 1 /\ Len(report) = 1

\* C21 (application-log counts are emitted every cycle): when a cycle of the
\* application-log shipper has reached its sleep, a sample of each of
\* info_count, warn_count and error_count has been recorded in that cycle,
\* also when the cycle read no line.
C21_CountsEveryCycle ==
  wc_pc = "sleep" =>
    \A m \in {"info_count", "warn_count", "error_count"} : WcSamples(m) >= 1

\* where an iteration of the main loop stands: 1 reading and forwarding,
\* 2 before the heartbeat, 3 and 4 in save_state(), 5 asleep; 0 outside the
\* loop
Phase(pc) ==
  CASE pc \in {"poll", "files", "lines"} -> 1
    [] pc = "heartbeat" -> 2
    [] pc = "save" -> 3
    [] pc = "save_w" -> 4
    [] pc = "sleep" -> 5
    [] OTHER -> 0

\* one step of a main loop: the reading part ends at the heartbeat, the
\* heartbeat is left by a step that records one more heartbeat sample of
\* value 1, and nothing after it leads back before the sleep is over
HeartbeatOnce(pc, npc, hb, nhb, nmm) ==
  /\ (Phase(pc) = 1 /\ Phase(npc) \notin {0, 1}) => Phase(npc) = 2
  /\ (Phase(pc) = 2 /\ npc # pc) =>
        /\ Phase(npc) \in {0, 3}
        /\ Phase(npc) = 3 => (nhb = hb + 1 /\ nmm["heartbeat"] = 1)
  /\ (Phase(pc) >= 3 /\ Phase(npc) # 0) =>
        (Phase(npc) >= Phase(pc) \/ (Phase(pc) = 5 /\ Phase(npc) = 1))
  /\ Phase(pc) = 0 => Phase(npc) \in {0, 1}
  /\ "heartbeat" \in DOMAIN nmm => nmm["heartbeat"] = 1

C23_ConfigFailFast ==
  /\ wc_pc \notin WcTry
  /\ "heartbeat" \notin DOMAIN wc_mmap

\* a line as read from the file, without its terminator
Chomp(s) == IF s # <<>> /\ s[Len(s)] = NL THEN SubSeq(s, 1, Len(s) - 1) ELSE s

\* C24 (verbatim message): the message of an event the application-log
\* shipper forwards is the line it is processing exactly as it was read,
\* less the line terminator only, leading and trailing blanks included.
C24_VerbatimMessage ==
  [][(wc_pc = "lines" /\ sent' # sent) =>
       sent'[Len(sent')].msg = Chomp(Head(new_lines).text)]_vars

\* C25 (shared state file does not lose offsets): with both shippers in one
\* working directory, whenever the state file holds a document, a shipper
\* that sleeps after its save_state() finds in the file the offsets it
\* holds, which are what its load_state() would restore after a restart;
\* a save of the other shipper has not removed them.
C25_SharedStateFile ==
  stateFile.kind = "json" =>
    /\ http_pc = "sleep" => PersistedOffset(ACCESS_LOG) = last_access_pos
    /\ wc_pc = "sleep" =>
         \A p \in DOMAIN last_positions : PersistedOffset(p) = last_positions[p]

\* C26 (persisted offset never runs ahead of forwarding): whenever the
\* state file holds a document, every terminated line below the offset it
\* holds for a path, of those the shipper forwards, has been forwarded: an
\* event of the path lies within the line.  A line read and not yet
\* forwarded is not covered by the persisted offset.
C26_PersistedNotAhead ==
  stateFile.kind = "json" =>
    \A p \in Paths :
      \A l \in CompleteLines(data[p]) :
        (Forwardable(p, l) /\ l.at + Len(l.text) <= PersistedOffset(p)) =>
          EventsWithin(p, l) # {}

\* the record_metric calls the next step of a shipper makes for measure m
HttpCalls(m) ==
  IF http_pc = "lines" /\ lines # <<>>
  THEN LET r == parse_log_line(strip(Head(lines).text)) IN
         IF r.matched /\ m = "response_time" THEN 1
         ELSE IF r.matched /\ is_error(r.status) /\ m = "error_http_count"
         THEN 1 ELSE 0
  ELSE IF http_pc = "lines"
  THEN (IF request_count > 0
           /\ m \in {"request_count", "error_rate", "avg_response_time"}
        THEN 1 ELSE 0)
  ELSE IF http_pc = "heartbeat" /\ m = "heartbeat" THEN 1 ELSE 0

WcCalls(m) ==
  IF wc_pc = "lines" /\ new_lines # <<>>
  THEN LET t == strip(Head(new_lines).text) IN
         IF t # <<>> /\ m = CounterOf(t) THEN 1 ELSE 0
  ELSE IF wc_pc = "heartbeat" /\ m = "heartbeat" THEN 1 ELSE 0

\* C27 (one sample per record_metric call): no step records more samples of
\* a measure than it makes record_metric calls for that measure; measures
\* put into the measurement map by earlier calls are not recorded again.
C27_OneSamplePerCall ==
  [][/\ \A m \in http_measures :
          HttpSamples(m)' <= HttpSamples(m) + HttpCalls(m)
     /\ \A m \in wc_measures :
          WcSamples(m)' <= WcSamples(m) + WcCalls(m)]_vars

\* C28 (persisted state equals in-memory state at rest): a save_state() that
\* completes leaves in the state file exactly the offsets the shipper holds,
\* and neither changes until the sleep is over; a save_state() that fails
\* changes no offset and goes on to the sleep of the loop.
C28_PersistedEqualsMemory ==
  [][/\ (http_pc = "save_w" /\ http_pc' = "sleep") =>
          stateFile' = Json([last_access_pos |-> last_access_pos'])
     /\ (http_pc = "sleep" /\ http_pc' = "sleep") =>
          (stateFile' = stateFile /\ last_access_pos' = last_access_pos)
     /\ (http_pc = "save" /\ http_pc' # "save") =>
          (http_pc' \in {"save_w", "sleep"}
             /\ last_access_pos' = last_access_pos)
     /\ (wc_pc = "save_w" /\ wc_pc' = "sleep") =>
          stateFile' = Json([last_positions |-> last_positions'])
     /\ (wc_pc = "sleep" /\ wc_pc' = "sleep") =>
          (stateFile' = stateFile /\ last_positions' = last_positions)
     /\ (wc_pc = "save" /\ wc_pc' # "save") =>
          (wc_pc' \in {"save_w", "sleep"}
             /\ last_positions' = last_positions)]_vars

\* the access shipper sleeps after a save_state() that failed: the state
\* file still holds the document of an earlier save, the shipper holds a
\* later offset
C28_Witness ==
  /\ http_pc = "sleep"
  /\ stateFile.kind = "json"
  /\ PersistedOffset(ACCESS_LOG) >= 1
  /\ PersistedOffset(ACCESS_LOG) < last_access_pos

\* C29 (per-path frame): the step of send_new_logs that takes up a file
\* leaves every other entry of last_positions as it was and adds at most the
\* entry of that file; a file without entry is read from 0, and keeps the
\* entry 0 when it cannot be opened; no step of the running shipper removes
\* an entry.
C29_PerPathFrame ==
  [][/\ (wc_pc = "files" /\ last_positions' # last_positions) =>
          LET f == Head(log_files) IN
            /\ DOMAIN last_positions' = DOMAIN last_positions \cup {f}
            /\ \A p \in DOMAIN last_positions \ {f} :
                 last_positions'[p] = last_positions[p]
            /\ f \notin DOMAIN last_positions =>
                 IF reads' # reads THEN readFrom'[f] = 0
                 ELSE last_positions'[f] = 0
     /\ wc_pc \in WcTry => DOMAIN last_positions \subseteq DOMAIN last_positions'
     /\ (wc_pc \in WcTry /\ wc_pc # "files") => last_positions' = last_positions
    ]_vars

\* the shipper holds an offset beyond 0 for one file and has just given the
\* other, seen for the first time, its entry
C29_Witness ==
  /\ wc_pc \in WcTry
  /\ DOMAIN last_positions = {MS_LOG, SM_LOG}
  /\ last_positions[MS_LOG] >= 1
  /\ last_positions[SM_LOG] >= 1
  /\ reads[SM_LOG] = 1
  /\ reads[MS_LOG] >= 2

\* a line of blanks, with or without its terminator
OnlyBlanks(t) == \A i \in DOMAIN t : t[i] \in {" ", NL}

\* C30 (blank lines are consumed silently): the step that processes a line
\* of blanks forwards no event, records no sample and counts no request,
\* and the offset held is already past the line; every read returns only
\* lines at or after the offset held, which no step of a running shipper
\* lowers, so the line is not read again.
C30_BlankLinesConsumed ==
  [][/\ (http_pc = "lines" /\ lines # <<>> /\ lines' # lines
           /\ OnlyBlanks(Head(lines).text)) =>
          /\ sent' = sent
          /\ http_samples' = http_samples /\ http_mmap' = http_mmap
          /\ request_count' = request_count /\ error_count' = error_count
          /\ Head(lines).at + Len(Head(lines).text) <= last_access_pos
          /\ last_access_pos' = last_access_pos
     /\ (wc_pc = "lines" /\ new_lines # <<>> /\ new_lines' # new_lines
           /\ OnlyBlanks(Head(new_lines).text)) =>
          /\ sent' = sent
          /\ wc_samples' = wc_samples /\ wc_mmap' = wc_mmap
          /\ Head(new_lines).at + Len(Head(new_lines).text)
               <= Offset(Head(log_files))
          /\ last_positions' = last_positions
     /\ \A p \in Paths :
          /\ ReadStep(p) => \A l \in Range(LinesRead(p)) : l.at >= Offset(p)
          /\ Running(p) => Offset(p)' >= Offset(p)]_vars

\* the application-log shipper has read a file that holds one blank line,
\* has read it again in a later cycle, and has forwarded and counted nothing
C30_Witness ==
  /\ wc_pc = "sleep"
  /\ data[MS_LOG] = <<" ", NL>>
  /\ Offset(MS_LOG) = 2
  /\ reads[MS_LOG] >= 2
  /\ sent = <<>>
  /\ wc_mmap = [heartbeat |-> 1]

====
